---- MODULE Spec2Model ----
(***************************************************************************)
(* The notification server of realtime-notifications-apollo-graphql        *)
(* (index.js): an in-memory log `notifications`, a PubSub broker with one  *)
(* topic, and the async iterators the newNotification subscription hands   *)
(* to the websocket SubscriptionServer.                                    *)
(*                                                                         *)
(* One step of the model is one turn of the Node event loop: a resolver or *)
(* a transport callback together with the microtasks it schedules.  The    *)
(* resolvers are synchronous, so no two of them interleave.                *)
(*                                                                         *)
(* pubsub.publish / pubsub.asyncIterator are calls into the                *)
(* graphql-subscriptions package; their effect is written out here as      *)
(* PubSub (an EventEmitter with a subscription table) and                  *)
(* PubSubAsyncIterator (pushQueue, pullQueue, listening) behave.  The      *)
(* SubscriptionServer is modelled by what it does with an operation's      *)
(* iterator: it consumes it, returns it on GQL_STOP and returns every      *)
(* iterator of a connection when the connection closes.                    *)
(*                                                                         *)
(* Spec is the whole server.  TracedSpec and FairSpec are the broker and   *)
(* its sessions with one label pushed: TracedSpec records when each        *)
(* iterator ended, FairSpec assumes consumers that keep consuming.         *)
(*                                                                         *)
(* ClientSpec is the React frontend: the PushNotification form            *)
(* (PushNotification.js) and the App component that toasts what its        *)
(* subscription delivers (App.js).  The network is left open: a mutation   *)
(* in flight resolves or rejects, and the subscription wrapper hands App   *)
(* a notification or a result without one.                                 *)
(*                                                                         *)
(* An operator described as a faulty variant is not part of the server:    *)
(* it is what the operator below it would be with a plausible slip, and    *)
(* the properties are expected to tell the two apart.                      *)
(***************************************************************************)
EXTENDS Naturals, Sequences, FiniteSets

\* ---------------------------------------------------------------- bounds
MaxLog == 2
MaxSubs == 2
MaxInFlight == 2
MaxToasts == 2


Labels == {"", "a"}
\* The arguments of a pushNotification request: a label, or none at all.
NoArgs == [nolabel |-> TRUE]
Args == {[label |-> l] : l \in Labels} \cup {NoArgs}

SubIds == 1..MaxSubs
Conns == {"c1", "c2"}
EventIds == 1..MaxLog

NOTIFICATION_SUBSCRIPTION_TOPIC == "newNotifications"
Topics == {NOTIFICATION_SUBSCRIPTION_TOPIC, "otherTopic"}

VARIABLES
    notifications,   \* const notifications = []
    published,       \* history: the payloads handed to pubsub.publish, in call order
    listeners,       \* pubsub.ee: trigger name -> listeners in registration order
    subscriptions,   \* pubsub.subscriptions: subId -> trigger name (a set of pairs)
    subIdCounter,    \* pubsub.subIdCounter
    iters,           \* the PubSubAsyncIterator made for each subscription id
    regAt,           \* history: Len(published) when the iterator was made
    ended,           \* history, kept when a run is traced: Len(published) and
                     \*          the suspended next() calls when the iterator
                     \*          stopped listening
    operations,      \* SubscriptionServer: connection -> its running operations
    response,        \* the response to the last query or mutation
    thrown,          \* an exception escaped a handler
    state,           \* PushNotification: state = { label: '' }
    inFlight,        \* the labels of the mutations awaited in _pushNotification
    settled,         \* history: how the last mutation ended, what it had sent
                     \*          and what the input held at that moment
    toasts,          \* the labels passed to toast(), in call order
    delivered,       \* history: the labels of the notifications handed to App
    raised           \* componentWillReceiveProps threw

client == <<state, inFlight, settled, toasts, delivered, raised>>

vars == <<notifications, published, listeners, subscriptions, subIdCounter,
          iters, regAt, ended, operations, response, thrown,
          state, inFlight, settled, toasts, delivered, raised>>

\* ------------------------------------------------------- iterator results
Undefined == [id |-> 0, label |-> "undefined"]
Value(payload) == [value |-> payload, done |-> FALSE]
Done == [value |-> [newNotification |-> Undefined], done |-> TRUE]

\* The consumer has been told twice that the stream ended; it is not followed
\* any further.
EndedTwice(it) ==
    LET n == Len(it.resolved)
    IN n >= 2 /\ it.resolved[n].done /\ it.resolved[n - 1].done

\* An iterator that does not exist yet.
NoIter == [listening |-> FALSE, pushQueue |-> <<>>, pullQueue |-> 0,
           resolved |-> <<>>]
NotEnded == [at |-> 0, pulls |-> 0]

\* The payloads an iterator has given its consumer, in the order given.
Received(it) ==
    LET v == SelectSeq(it.resolved, LAMBDA r : ~r.done)
    IN [i \in 1..Len(v) |-> v[i].value]

\* The payloads an iterator has taken in: given to the consumer or queued.
Observed(it) == Received(it) \o it.pushQueue

\* ------------------------------------------------------------ the schema
\* Faulty variant: type Mutation { pushNotification(label: String): Notification }
AnyArgs(args) == TRUE

\* type Mutation { pushNotification(label: String!): Notification }
\* The schema layer rejects a request without the required label.
ValidArgs(args) == "label" \in DOMAIN args

\* ------------------------------------------------------------ PubSub
\* PubSubAsyncIterator.pushValue: hand the event to the oldest suspended
\* next(), or queue it.
\* Faulty variant: the event is queued in front of the older ones.
PushValueFront(it, event) ==
    IF it.pullQueue # 0
    THEN [it EXCEPT !.pullQueue = @ - 1,
                    !.resolved = Append(@, Value(event))]
    ELSE [it EXCEPT !.pushQueue = <<event>> \o @]

PushValue(it, event) ==
    IF it.pullQueue # 0
    THEN [it EXCEPT !.pullQueue = @ - 1,
                    !.resolved = Append(@, Value(event))]
    ELSE [it EXCEPT !.pushQueue = Append(@, event)]

\* Faulty variant: the event taken stays in the queue.
PullValueRepeat(it) ==
    IF Len(it.pushQueue) # 0
    THEN [it EXCEPT !.resolved = Append(@, Value(Head(it.pushQueue)))]
    ELSE [it EXCEPT !.pullQueue = @ + 1]

\* PubSubAsyncIterator.pullValue: take the oldest queued event, or suspend.
PullValue(it) ==
    IF Len(it.pushQueue) # 0
    THEN [it EXCEPT !.resolved = Append(@, Value(Head(it.pushQueue))),
                    !.pushQueue = Tail(@)]
    ELSE [it EXCEPT !.pullQueue = @ + 1]

\* Faulty variant: emptying the queues of an ended iterator arms it again.
EmptyQueueRearm(it) ==
    IF it.listening
    THEN [it EXCEPT !.listening = FALSE,
                    !.resolved = @ \o [i \in 1..it.pullQueue |-> Done],
                    !.pullQueue = 0,
                    !.pushQueue = <<>>]
    ELSE [it EXCEPT !.listening = TRUE]

\* Faulty variant: the suspended next() calls are left suspended.
EmptyQueueNoResolve(it) ==
    IF it.listening
    THEN [it EXCEPT !.listening = FALSE, !.pushQueue = <<>>]
    ELSE it

\* PubSubAsyncIterator.emptyQueue: only a listening iterator is torn down;
\* every suspended next() resolves to done and both queues are emptied.
EmptyQueue(it) ==
    IF it.listening
    THEN [it EXCEPT !.listening = FALSE,
                    !.resolved = @ \o [i \in 1..it.pullQueue |-> Done],
                    !.pullQueue = 0,
                    !.pushQueue = <<>>]
    ELSE it

\* Faulty variants: the listener is never removed; it is removed again on
\* every return().
UnsubscribedNone(it, s) == {}
UnsubscribedAlways(it, s) == {s}

\* The subscription ids emptyQueue passes to pubsub.unsubscribe.
Unsubscribed(it, s) == IF it.listening THEN {s} ELSE {}

\* Faulty variant: removeListener removes nothing.
WithoutNothing(seq, S) == seq

\* EventEmitter.removeListener for the listeners of S.
RECURSIVE Without(_, _)
Without(seq, S) ==
    IF seq = <<>> THEN <<>>
    ELSE IF Head(seq) \in S THEN Without(Tail(seq), S)
         ELSE <<Head(seq)>> \o Without(Tail(seq), S)

Range(seq) == {seq[i] : i \in DOMAIN seq}

\* Faulty variant: nothing is emitted.
PublishNone(its, trigger, payload) == its

\* Faulty variant: emit waits while a listener has events it has not consumed.
PublishBlocking(its, trigger, payload) ==
    [s \in SubIds |->
        IF /\ s \in Range(listeners[trigger])
           /\ \A t \in Range(listeners[trigger]) : its[t].pushQueue = <<>>
        THEN PushValue(its[s], payload)
        ELSE its[s]]

\* Faulty variant: emit stops after the first listener.
PublishFirst(its, trigger, payload) ==
    [s \in SubIds |->
        IF listeners[trigger] # <<>> /\ s = Head(listeners[trigger])
        THEN PushValue(its[s], payload)
        ELSE its[s]]

\* pubsub.publish(trigger, payload): EventEmitter.emit calls every listener
\* of the trigger, each of which is the pushValue of one iterator.
Publish(its, trigger, payload) ==
    [s \in SubIds |->
        IF s \in Range(listeners[trigger])
        THEN PushValue(its[s], payload)
        ELSE its[s]]

\* Faulty variant: the mutation publishes on another trigger.
WrongTrigger == "otherTopic"

\* The trigger the mutation publishes on and the one a subscription listens to.
PublishTrigger == NOTIFICATION_SUBSCRIPTION_TOPIC
SubscribeTrigger == NOTIFICATION_SUBSCRIPTION_TOPIC

\* Faulty variant: a new iterator starts with everything published so far.
ReplayingIterator == [NoIter EXCEPT !.listening = TRUE, !.pushQueue = published]

\* pubsub.asyncIterator(topic): a listening iterator with empty queues.
AsyncIterator == [NoIter EXCEPT !.listening = TRUE]

\* Faulty variant: the label of the arguments is not copied.
NewNotificationNoLabel(args) ==
    [id |-> Len(notifications) + 1, label |-> Undefined.label]

\* const newNotification = { label: args.label }: a fresh object; a label
\* that is not there reads as undefined.
NewNotification(args) ==
    [id |-> Len(notifications) + 1,
     label |-> IF "label" \in DOMAIN args THEN args.label ELSE Undefined.label]

\* Faulty variant: notifications.unshift(newNotification)
PushFront(log, n) == <<n>> \o log

\* notifications.push(newNotification)
Push(log, n) == Append(log, n)

\* ------------------------------------------------------------- frontend
\* What the input can hold.
Typed == {"", "a", "b"}

\* No mutation has ended yet.
NotSettled == [kind |-> "none", sent |-> "", held |-> ""]

\* The data prop the subscription wrapper hands to App: a notification, or a
\* result that carries none (the subscription failed).
PropsData ==
    {[loading |-> FALSE, newNotification |-> [label |-> l]] : l \in Labels}
        \cup {[loading |-> FALSE, error |-> TRUE]}

\* ---------------------------------------------------------------- Init
Init ==
    /\ notifications = <<>>
    /\ published = <<>>
    /\ listeners = [t \in Topics |-> <<>>]
    /\ subscriptions = {}
    /\ subIdCounter = 0
    /\ iters = [s \in SubIds |-> NoIter]
    /\ regAt = [s \in SubIds |-> 0]
    /\ ended = [s \in SubIds |-> NotEnded]
    /\ operations = [c \in Conns |-> {}]
    /\ response = [kind |-> "none"]
    /\ thrown = FALSE
    /\ state = [label |-> ""]
    /\ inFlight = <<>>
    /\ settled = NotSettled
    /\ toasts = <<>>
    /\ delivered = <<>>
    /\ raised = FALSE

\* Faulty variant: the resolver runs before the arguments are validated.
PushNotificationUnchecked(args) ==
    /\ Len(notifications) < MaxLog
    /\ LET n == NewNotification(args)
           payload == [newNotification |-> n]
       IN /\ notifications' = Push(notifications, n)
          /\ published' = Append(published, payload)
          /\ iters' = Publish(iters, PublishTrigger, payload)
          /\ response' = IF ValidArgs(args) THEN [kind |-> "data", data |-> n]
                                            ELSE [kind |-> "errors"]
    /\ UNCHANGED <<listeners, subscriptions, subIdCounter, regAt, ended, operations, thrown>>
    /\ UNCHANGED client

\* ------------------------------------------------------------- actions
\* Mutation.pushNotification(root, args), behind the schema's label: String!
PushNotification(args) ==
    /\ ValidArgs(args) => Len(notifications) < MaxLog
    /\ IF ValidArgs(args)
       THEN LET n == NewNotification(args)
                payload == [newNotification |-> n]
            IN /\ notifications' = Push(notifications, n)
               /\ published' = Append(published, payload)
               /\ iters' = Publish(iters, PublishTrigger, payload)
               /\ response' = [kind |-> "data", data |-> n]
       ELSE /\ response' = [kind |-> "errors"]
            /\ UNCHANGED <<notifications, published, iters>>
    /\ UNCHANGED <<listeners, subscriptions, subIdCounter, regAt, ended,
                   operations, thrown>>
    /\ UNCHANGED client

\* Faulty variant: the resolver returns notifications.reverse(), which
\* reverses the log in place.
QueryReversing ==
    /\ notifications' = [i \in 1..Len(notifications) |->
                            notifications[Len(notifications) + 1 - i]]
    /\ response' = [kind |-> "list", data |-> notifications']
    /\ UNCHANGED <<published, listeners, subscriptions,
                   subIdCounter, iters, regAt, ended, operations, thrown>>
    /\ UNCHANGED client

\* Query.notifications
Query ==
    /\ response' = [kind |-> "list", data |-> notifications]
    /\ UNCHANGED <<notifications, published, listeners, subscriptions,
                   subIdCounter, iters, regAt, ended, operations, thrown>>
    /\ UNCHANGED client

\* Subscription.newNotification.subscribe for a client on websocket c:
\* pubsub.asyncIterator(topic) makes the iterator and registers its listener.
Subscribe(c) ==
    /\ subIdCounter < MaxSubs
    /\ LET s == subIdCounter + 1
       IN /\ subIdCounter' = s
          /\ subscriptions' = subscriptions \cup {<<s, SubscribeTrigger>>}
          /\ listeners' = [listeners EXCEPT ![SubscribeTrigger] = Append(@, s)]
          /\ iters' = [iters EXCEPT ![s] = AsyncIterator]
          /\ regAt' = [regAt EXCEPT ![s] = Len(published)]
          /\ operations' = [operations EXCEPT ![c] = @ \cup {s}]
    /\ UNCHANGED <<notifications, published, ended, response, thrown>>
    /\ UNCHANGED client

\* pubsub.unsubscribe for each id of S: an unknown id makes it throw.
UnsubscribeAll(S) ==
    /\ subscriptions' = {p \in subscriptions : p[1] \notin S}
    /\ listeners' = [t \in Topics |-> Without(listeners[t], S)]
    /\ thrown' = (thrown \/ \E s \in S : \A t \in Topics : <<s, t>> \notin subscriptions)

\* iterator.return() on each iterator of R.
ReturnAll(R, traced) ==
    /\ iters' = [s \in SubIds |-> IF s \in R THEN EmptyQueue(iters[s]) ELSE iters[s]]
    /\ ended' = [s \in SubIds |->
                    IF traced /\ s \in R /\ iters[s].listening
                    THEN [at |-> Len(published), pulls |-> iters[s].pullQueue]
                    ELSE ended[s]]
    /\ UnsubscribeAll(UNION {Unsubscribed(iters[s], s) : s \in R})

\* The consumer of iterator s asks for the next result, once the result it
\* asked for before has arrived: next() is listening ? pullValue() : return().
Next(s) ==
    /\ s <= subIdCounter
    /\ iters[s].pullQueue = 0
    /\ ~EndedTwice(iters[s])
    /\ IF iters[s].listening
       THEN /\ iters' = [iters EXCEPT ![s] = PullValue(@)]
            /\ UNCHANGED <<subscriptions, listeners, thrown>>
       ELSE /\ iters' = [iters EXCEPT ![s] = [EmptyQueue(@) EXCEPT !.resolved = Append(@, Done)]]
            /\ UnsubscribeAll(Unsubscribed(iters[s], s))
    /\ UNCHANGED <<notifications, published, subIdCounter, regAt, ended,
                   operations, response>>
    /\ UNCHANGED client

\* The client on c stops operation s (GQL_STOP): if the connection still runs
\* it, the server returns its iterator and forgets the operation.
Stop(c, s, traced) ==
    /\ s <= subIdCounter
    /\ IF s \in operations[c]
       THEN /\ ReturnAll({s}, traced)
            /\ operations' = [operations EXCEPT ![c] = @ \ {s}]
       ELSE UNCHANGED <<iters, ended, subscriptions, listeners, thrown, operations>>
    /\ UNCHANGED <<notifications, published, subIdCounter, regAt, response>>
    /\ UNCHANGED client

\* The websocket c, on which operations run, closes: each of them is stopped.
Disconnect(c, traced) ==
    /\ operations[c] # {}
    /\ ReturnAll(operations[c], traced)
    /\ operations' = [operations EXCEPT ![c] = {}]
    /\ UNCHANGED <<notifications, published, subIdCounter, regAt, response>>
    /\ UNCHANGED client

NextStep ==
    \/ \E args \in Args : PushNotification(args)
    \/ Query
    \/ \E c \in Conns : Subscribe(c)
    \/ \E s \in SubIds : Next(s)
    \/ \E c \in Conns, s \in SubIds : Stop(c, s, FALSE)
    \/ \E c \in Conns : Disconnect(c, FALSE)

\* The whole server: queries, mutations with every kind of argument,
\* subscriptions and their transport.
Spec == Init /\ [][NextStep]_vars

\* The broker and its sessions alone: the payload is opaque to them, so one
\* label is pushed and no query is made.
BrokerStep(traced) ==
    \/ PushNotification([label |-> "a"])
    \/ \E c \in Conns : Subscribe(c)
    \/ \E s \in SubIds : Next(s)
    \/ \E c \in Conns, s \in SubIds : Stop(c, s, traced)
    \/ \E c \in Conns : Disconnect(c, traced)

\* The broker with the history of each iterator's end recorded.
TracedSpec == Init /\ [][BrokerStep(TRUE)]_vars

\* The broker with a consumer that keeps consuming: the transport's loop asks
\* for the next result again after each one it gets.
FairSpec ==
    /\ Init /\ [][BrokerStep(FALSE)]_vars
    /\ \A s \in SubIds : WF_vars(Next(s))

\* ------------------------------------------------------ frontend actions
\* An uncaught error in a lifecycle method unmounts the React tree: once
\* componentWillReceiveProps has thrown, no handler of the page runs again.

RemoveAt(seq, i) == SubSeq(seq, 1, i - 1) \o SubSeq(seq, i + 1, Len(seq))

\* onChange={e => this.setState({ label: e.target.value })}
OnChange(l) ==
    /\ ~raised
    /\ l # state.label
    /\ state' = [state EXCEPT !.label = l]
    /\ UNCHANGED <<inFlight, settled, toasts, delivered, raised>>
    /\ UNCHANGED <<notifications, published, listeners, subscriptions, subIdCounter,
                   iters, regAt, ended, operations, response, thrown>>

\* Faulty variant: the input is cleared at the click, before the await.
OnClickClearing ==
    /\ ~raised
    /\ Len(inFlight) < MaxInFlight
    /\ inFlight' = Append(inFlight, state.label)
    /\ state' = [state EXCEPT !.label = ""]
    /\ UNCHANGED <<settled, toasts, delivered, raised>>
    /\ UNCHANGED <<notifications, published, listeners, subscriptions, subIdCounter,
                   iters, regAt, ended, operations, response, thrown>>

\* onClick: _pushNotification up to its await; the label is read from the
\* state and sent as the variable of the mutation.
OnClick ==
    /\ ~raised
    /\ Len(inFlight) < MaxInFlight
    /\ inFlight' = Append(inFlight, state.label)
    /\ UNCHANGED <<state, settled, toasts, delivered, raised>>
    /\ UNCHANGED <<notifications, published, listeners, subscriptions, subIdCounter,
                   iters, regAt, ended, operations, response, thrown>>

\* The awaited mutation resolves: _pushNotification goes on to
\* this.setState({ label: '' }).
MutationResolved(i) ==
    /\ ~raised
    /\ i \in DOMAIN inFlight
    /\ inFlight' = RemoveAt(inFlight, i)
    /\ state' = [state EXCEPT !.label = ""]
    /\ settled' = [kind |-> "resolved", sent |-> inFlight[i], held |-> state.label]
    /\ UNCHANGED <<toasts, delivered, raised>>
    /\ UNCHANGED <<notifications, published, listeners, subscriptions, subIdCounter,
                   iters, regAt, ended, operations, response, thrown>>

\* The awaited mutation rejects: the await throws and _pushNotification
\* ends without reaching setState.
MutationRejected(i) ==
    /\ ~raised
    /\ i \in DOMAIN inFlight
    /\ inFlight' = RemoveAt(inFlight, i)
    /\ settled' = [kind |-> "rejected", sent |-> inFlight[i], held |-> state.label]
    /\ UNCHANGED <<state, toasts, delivered, raised>>
    /\ UNCHANGED <<notifications, published, listeners, subscriptions, subIdCounter,
                   iters, regAt, ended, operations, response, thrown>>

\* componentWillReceiveProps({ data: { newNotification: { label } } }):
\* the parameter is destructured before the body runs, which throws a
\* TypeError when data.newNotification is undefined; otherwise toast(label).
ComponentWillReceiveProps(data) ==
    /\ ~raised
    /\ "newNotification" \in DOMAIN data => Len(delivered) < MaxToasts
    /\ IF "newNotification" \in DOMAIN data
       THEN /\ toasts' = Append(toasts, data.newNotification.label)
            /\ delivered' = Append(delivered, data.newNotification.label)
            /\ UNCHANGED raised
       ELSE /\ raised' = TRUE
            /\ UNCHANGED <<toasts, delivered>>
    /\ UNCHANGED <<state, inFlight, settled>>
    /\ UNCHANGED <<notifications, published, listeners, subscriptions, subIdCounter,
                   iters, regAt, ended, operations, response, thrown>>

ClientStep ==
    \/ \E l \in Typed : OnChange(l)
    \/ OnClick
    \/ \E i \in 1..MaxInFlight : MutationResolved(i)
    \/ \E i \in 1..MaxInFlight : MutationRejected(i)
    \/ \E data \in PropsData : ComponentWillReceiveProps(data)

ClientSpec == Init /\ [][ClientStep]_vars

\* ------------------------------------------------------------ properties
Created(s) == s <= subIdCounter

\* The place of a payload in the order of the publish calls (0: never published).
PubIndex(p) ==
    IF \E i \in 1..Len(published) : published[i] = p
    THEN CHOOSE i \in 1..Len(published) : published[i] = p
    ELSE 0

LabelsOf(log) == [i \in 1..Len(log) |-> log[i].label]
PushedLabels == [i \in 1..Len(published) |-> published[i].newNotification.label]

DeliveredTo(s, e) ==
    /\ e <= Len(published)
    /\ \E i \in DOMAIN Received(iters[s]) : Received(iters[s])[i] = published[e]

After(seq, m) == SelectSeq(seq, LAMBDA p : PubIndex(p) > m)
Max(a, b) == IF a > b THEN a ELSE b

\* C1: a notifications query returns exactly the notifications of the
\* successful pushNotification calls made so far, with their labels in the
\* order of the calls: none reordered, dropped or duplicated.
C1_QueryReturnsPushOrder ==
    [][Query => /\ response'.kind = "list"
                /\ LabelsOf(response'.data) = PushedLabels]_vars

C1_Witness ==
    /\ response.kind = "list"
    /\ Len(response.data) >= 2
    /\ response.data[1].label # response.data[2].label

\* C2: a subscription registered before an event is published, and not
\* cancelled, has taken in exactly the events published since its
\* registration, each once; no event is ever given to a consumer twice; and
\* an event it has taken in is given to its consumer if it keeps consuming.
C2_DeliveredExactlyOnce ==
    /\ [](\A s \in SubIds :
            iters[s].listening =>
                Observed(iters[s]) = SubSeq(published, regAt[s] + 1, Len(published)))
    /\ [](\A s \in SubIds : \A i, j \in DOMAIN Received(iters[s]) :
            i # j => Received(iters[s])[i] # Received(iters[s])[j])
    /\ \A s \in SubIds, e \in EventIds :
            (iters[s].listening /\ regAt[s] < e /\ e <= Len(published))
                ~> (DeliveredTo(s, e) \/ ~iters[s].listening)

C2_Witness ==
    \E s \in SubIds :
        /\ iters[s].listening
        /\ regAt[s] = 0
        /\ Len(published) >= 2
        /\ Received(iters[s]) = published

\* C3: the events a subscription receives come in the order in which they
\* were published.
C3_FifoPerChannel ==
    \A s \in SubIds : \A i, j \in DOMAIN Received(iters[s]) :
        /\ PubIndex(Received(iters[s])[i]) > 0
        /\ i < j => PubIndex(Received(iters[s])[i]) < PubIndex(Received(iters[s])[j])

C3_Witness == \E s \in SubIds : Len(Received(iters[s])) >= 2

\* C4: two registered subscriptions both take in every event published after
\* both were registered, in the same order; the events both have received
\* were received in the same relative order; and once an event is published,
\* a time comes when every subscription that was registered before it and is
\* still registered has received it, if the consumers keep consuming.
C4_BothReceiveSameOrder ==
    /\ [](\A s, t \in SubIds :
            (s # t /\ iters[s].listening /\ iters[t].listening) =>
                LET m == Max(regAt[s], regAt[t])
                IN /\ After(Observed(iters[s]), m) = SubSeq(published, m + 1, Len(published))
                   /\ After(Observed(iters[t]), m) = After(Observed(iters[s]), m))
    /\ [](\A s, t \in SubIds :
            \A i, j \in DOMAIN Received(iters[s]), k, l \in DOMAIN Received(iters[t]) :
                (/\ i < j
                 /\ Received(iters[s])[i] = Received(iters[t])[k]
                 /\ Received(iters[s])[j] = Received(iters[t])[l]) => k < l)
    /\ \A e \in EventIds :
            (e <= Len(published))
                ~> (\A s \in SubIds :
                        (iters[s].listening /\ regAt[s] < e) => DeliveredTo(s, e))

C4_Witness ==
    \E s, t \in SubIds :
        /\ s # t /\ iters[s].listening /\ iters[t].listening
        /\ Len(published) >= 2
        /\ Received(iters[s]) = published
        /\ Received(iters[t]) = published

\* C5: a subscription takes in no notification that was pushed before the
\* subscription was registered.
C5_NoBacklog ==
    \A s \in SubIds : \A i \in DOMAIN Observed(iters[s]) :
        PubIndex(Observed(iters[s])[i]) > regAt[s]

C5_Witness ==
    \E s \in SubIds :
        /\ regAt[s] >= 1
        /\ Len(Received(iters[s])) >= 1

C7_DisconnectDeregisters ==
    /\ [][\A c \in Conns :
            Disconnect(c, TRUE) =>
                /\ operations'[c] = {}
                /\ \A s \in operations[c] :
                        /\ ~iters'[s].listening
                        /\ \A t \in Topics : s \notin Range(listeners'[t])
                        /\ \A t \in Topics : <<s, t>> \notin subscriptions'
                /\ Cardinality(subscriptions') =
                        Cardinality(subscriptions) - Cardinality(operations[c])
                /\ ~thrown']_vars
    /\ [][\A s \in SubIds :
            (Created(s) /\ s \notin UNION {operations[c] : c \in Conns}) =>
                /\ \A t \in Topics : s \notin Range(listeners[t])
                /\ iters'[s].pushQueue = iters[s].pushQueue
                /\ Received(iters'[s]) = Received(iters[s])
                /\ ~thrown']_vars

C7_Witness ==
    \E s, t \in SubIds, c \in Conns :
        /\ s # t /\ Created(s) /\ Created(t)
        /\ operations[c] = {}
        /\ ~iters[s].listening /\ ~iters[t].listening
        /\ ended[s] = ended[t]
        /\ ended[s].at >= 1
        /\ ended[s].at < Len(published)

\* C8: a channel that has been unsubscribed takes in no event published
\* afterwards, and nothing is queued for it.
C8_NoDeliveryAfterUnsubscribe ==
    \A s \in SubIds :
        (Created(s) /\ ~iters[s].listening) =>
            /\ iters[s].pushQueue = <<>>
            /\ \A i \in DOMAIN Received(iters[s]) :
                    PubIndex(Received(iters[s])[i]) <= ended[s].at

C8_Witness ==
    \E s \in SubIds :
        /\ Created(s) /\ ~iters[s].listening
        /\ Len(Received(iters[s])) >= 1
        /\ Len(published) >= ended[s].at + 1

\* C9: a second unsubscribe of a channel (a stop of an operation that is no
\* longer run, or the return() a next() makes on an iterator that stopped
\* listening) throws nothing and leaves the registry, the connections'
\* operations and every other channel as they were.
C9_UnsubscribeIdempotent ==
    [][\A s \in SubIds :
        (/\ Created(s) /\ ~iters[s].listening
         /\ (Next(s) \/ \E c \in Conns : Stop(c, s, TRUE)))
            => /\ subscriptions' = subscriptions
               /\ listeners' = listeners
               /\ operations' = operations
               /\ ~thrown'
               /\ iters'[s].pushQueue = iters[s].pushQueue
               /\ iters'[s].listening = iters[s].listening
               /\ \A t \in SubIds : t # s => iters'[t] = iters[t]]_vars

C9_Witness ==
    \E s, t \in SubIds :
        /\ s # t
        /\ EndedTwice(iters[s])
        /\ iters[t].listening
        /\ Len(iters[t].pushQueue) >= 1

\* C10: when a session is cancelled while a next() is suspended, that next()
\* resolves to end-of-stream and nothing is thrown; every next() made after the
\* cancel resolves to end-of-stream; and the session receives no event after
\* the cancel.
C10_CancelEndsStream ==
    [][\A s \in SubIds :
        /\ (iters[s].listening /\ ~iters'[s].listening) =>
                /\ iters'[s].resolved =
                        iters[s].resolved \o [i \in 1..iters[s].pullQueue |-> Done]
                /\ iters'[s].pullQueue = 0
                /\ ~thrown'
        /\ (Created(s) /\ ~iters[s].listening) =>
                /\ Next(s) => iters'[s].resolved = Append(iters[s].resolved, Done)
                /\ Received(iters'[s]) = Received(iters[s])
                /\ iters'[s].pullQueue = 0]_vars

C10_Witness ==
    \E s \in SubIds :
        /\ ended[s].pulls = 1
        /\ EndedTwice(iters[s])
        /\ Len(published) >= ended[s].at + 1

\* C11: every successful pushNotification appends one notification to the
\* log, publishes it to every registered subscription (none, one or several)
\* and returns the stored notification; nothing is thrown and the other
\* subscriptions are left alone.
C11_PushAppendsPublishesReturns ==
    [][\A args \in Args :
        (ValidArgs(args) /\ PushNotification(args)) =>
            /\ response'.kind = "data"
            /\ notifications' = Append(notifications, response'.data)
            /\ published' = Append(published, [newNotification |-> response'.data])
            /\ \A s \in SubIds :
                    IF iters[s].listening
                    THEN Observed(iters'[s]) =
                            Append(Observed(iters[s]), [newNotification |-> response'.data])
                    ELSE iters'[s] = iters[s]
            /\ ~thrown']_vars

C11_Witness ==
    \E s, t \in SubIds :
        /\ s # t /\ iters[s].listening /\ iters[t].listening
        /\ regAt[s] = 1 /\ regAt[t] = 1
        /\ Len(Observed(iters[s])) = 1 /\ Len(Observed(iters[t])) = 1
        /\ response.kind = "data"
        /\ response.data = notifications[2]

\* C12: for a successful pushNotification(l) the returned notification, the
\* one message handed to each registered subscription and the last element of
\* a following notifications query all carry the label l; each message is one
\* payload holding one notification.
C12_SameLabelEverywhere ==
    /\ [][\A args \in Args :
            (ValidArgs(args) /\ PushNotification(args)) =>
                /\ response'.data.label = args.label
                /\ notifications'[Len(notifications')].label = args.label
                /\ \A s \in SubIds :
                        iters[s].listening =>
                            LET before == Observed(iters[s])
                                after == Observed(iters'[s])
                            IN /\ Len(after) = Len(before) + 1
                               /\ SubSeq(after, 1, Len(before)) = before
                               /\ DOMAIN after[Len(after)] = {"newNotification"}
                               /\ after[Len(after)].newNotification.label = args.label]_vars
    /\ [][Query => response'.data = notifications]_vars

C12_Witness ==
    /\ response.kind = "list"
    /\ Len(response.data) = 2
    /\ response.data[2].label = ""
    /\ \E s \in SubIds :
        /\ iters[s].listening
        /\ regAt[s] = 0
        /\ Len(Received(iters[s])) = 2
        /\ Received(iters[s])[2].newNotification.label = ""

\* C13: a pushNotification that fails leaves the log and the broker as they
\* were: same log, same registered channels, nothing published and nothing
\* handed to any subscription.
C13_FailedPushChangesNothing ==
    [][\A args \in Args :
        (PushNotification(args) /\ response'.kind = "errors") =>
            /\ notifications' = notifications
            /\ published' = published
            /\ subscriptions' = subscriptions
            /\ listeners' = listeners
            /\ iters' = iters
            /\ operations' = operations
            /\ thrown' = thrown]_vars

C13_Witness ==
    /\ response.kind = "errors"
    /\ Len(notifications) = 1
    /\ \E s, t \in SubIds :
        /\ iters[s].listening /\ Len(iters[s].pushQueue) = 1
        /\ iters[t].listening /\ iters[t].pullQueue = 1

\* C14: the events are published in the order the notifications are appended
\* to the log, and the append and the publish of one mutation are one step:
\* in every state the published events are exactly the log, in its order.
C14_PublishOrderIsAppendOrder ==
    /\ Len(published) = Len(notifications)
    /\ \A i \in 1..Len(notifications) :
            published[i] = [newNotification |-> notifications[i]]

C14_Witness ==
    /\ Len(published) = 2
    /\ published[1].newNotification.label = "a"
    /\ published[2].newNotification.label = ""
    /\ \E s \in SubIds : Received(iters[s]) = published

\* C15: a subscription that is suspended in next(), or that never consumes,
\* neither blocks nor fails the publisher nor holds back the others: while the
\* log has room pushNotification can be taken, it completes with its result
\* and throws nothing, and every registered subscription takes the event in at
\* once, a suspended one straight to its consumer, the others at the end of
\* their queue.
C15_SlowSubscriberBlocksNobody ==
    /\ [](Len(notifications) < MaxLog => ENABLED PushNotification([label |-> "a"]))
    /\ [][PushNotification([label |-> "a"]) =>
            /\ response'.kind = "data"
            /\ thrown' = thrown
            /\ \A t \in SubIds :
                    iters[t].listening =>
                        LET p == published'[Len(published')]
                        IN IF iters[t].pullQueue > 0
                           THEN /\ Received(iters'[t]) = Append(Received(iters[t]), p)
                                /\ iters'[t].pushQueue = iters[t].pushQueue
                           ELSE /\ iters'[t].pushQueue = Append(iters[t].pushQueue, p)
                                /\ Received(iters'[t]) = Received(iters[t])]_vars

C15_Witness ==
    \E s, t \in SubIds :
        /\ s # t
        /\ iters[s].listening /\ iters[s].resolved = <<>> /\ iters[s].pullQueue = 0
        /\ iters[s].pushQueue = published
        /\ iters[t].listening /\ Received(iters[t]) = published
        /\ Len(published) = 2

\* The state of a session is the listening flag of its iterator: the code has
\* one terminal state, reached by return().
SessionState(it) == IF it.listening THEN "Active" ELSE "Cancelled"

\* C16: a session only moves from Active to a terminal state: once terminal it
\* is never Active again and its terminal state never changes, whatever is
\* subscribed, published, consumed, stopped or disconnected afterwards.
C16_TerminalIsForever ==
    [][\A s \in SubIds :
        (Created(s) /\ SessionState(iters[s]) # "Active") =>
            SessionState(iters'[s]) = SessionState(iters[s])]_vars

C16_Witness ==
    \E s, t \in SubIds :
        /\ Created(s) /\ SessionState(iters[s]) = "Cancelled"
        /\ ended[s].at < Len(published)
        /\ EndedTwice(iters[s])
        /\ regAt[t] > ended[s].at
        /\ SessionState(iters[t]) = "Active"

\* C17: a notifications query only reads: the log, the registered channels,
\* the events waiting in the channels and the open operations are the same
\* after it as before, and it hands nothing to any subscription.
C17_QueryIsPureRead ==
    [][Query =>
        /\ response'.data = notifications
        /\ notifications' = notifications
        /\ published' = published
        /\ subscriptions' = subscriptions
        /\ listeners' = listeners
        /\ iters' = iters
        /\ operations' = operations
        /\ thrown' = thrown]_vars

C17_Witness ==
    /\ response.kind = "list"
    /\ Len(response.data) = 2
    /\ response.data = notifications
    /\ \E s, t \in SubIds :
        /\ iters[s].listening /\ Len(iters[s].pushQueue) = 2
        /\ iters[t].listening /\ iters[t].pullQueue = 1

C19_ResetOnlyAfterResolve ==
    /\ [][OnClick => (inFlight' = Append(inFlight, state.label) /\ state' = state)]_vars
    /\ [][\A i \in 1..MaxInFlight : MutationResolved(i) => state'.label = ""]_vars
    /\ [][\A i \in 1..MaxInFlight : MutationRejected(i) => state'.label = state.label]_vars
    /\ [][state'.label # state.label =>
            \/ \E l \in Typed : OnChange(l)
            \/ \E i \in 1..MaxInFlight : MutationResolved(i)]_vars

C19_Witness ==
    /\ settled.kind = "resolved"
    /\ settled.sent = "a"
    /\ settled.held = "b"
    /\ state.label = ""
    /\ inFlight = <<"b">>

\* C20: App shows one toast, with the notification's label, for each
\* notification its subscription delivers, and handling a props update never
\* raises an error.
C20_OneToastEachAndNoError ==
    /\ toasts = delivered
    /\ ~raised

====
